---- MODULE Spec2Model ----
(***************************************************************************)
(* AI Game Partner: the analysis-loop coordinator of src/main.py with the  *)
(* conversation history of src/ai_client.py, the screenshot store of       *)
(* src/screen_capture.py and the UI update pump of GamePartner.run.        *)
(*                                                                         *)
(* Threads: the analysis thread (pc), the capture thread (cap_pc), the     *)
(* hotkey listener, and the UI thread (message submit, pump, shutdown).    *)
(***************************************************************************)
EXTENDS Integers, Sequences, FiniteSets, TLC

VARIABLES
    now,                   \* the latest reading of time.time(), in seconds
    screenshots,           \* ScreenCapture.screenshots
    captured,              \* number of captures taken so far (screenshot id)
    cap_pc,                \* capture thread: "capture" | "evict"
    message_queue,         \* GamePartner.message_queue
    submitted,             \* number of messages the user has submitted
    ui_update_queue,       \* GamePartner.ui_update_queue
    conversation_history,  \* AIClient.conversation_history
    last_analysis_time,    \* GamePartner.last_analysis_time
    running,               \* GamePartner.running
    pc,                    \* analysis thread position
    message,               \* _analysis_loop: local message (entry of the inbox)
    current_time,          \* _analysis_loop: local current_time
    response,              \* _process_message/_analyze_game_state: local response
    pumping,               \* process_updates is running on the UI thread
    overlay_messages,      \* GameOverlay.messages
    calls,                 \* history: number of calls of client.messages.create
    req,                   \* history: the latest request sent
    outcome,               \* history: how the latest call of analyze ended
    reqEnq,                \* history: instructions enqueued for the latest request
    successes,             \* history: number of calls of analyze that succeeded
    drainCount,            \* history: times each message left message_queue
    sentCount,             \* history: requests each message appeared in
    dropped,               \* history: messages given up for want of a screenshot
    cyclePolls,            \* history: polls of the inbox in this iteration
    cycleKinds,            \* history: kinds of the requests of this iteration
    prevAuto,              \* history: current_time of the automatic request before
    curAuto,               \* history: current_time of the latest automatic request
    max_screenshots,       \* ScreenCapture.max_screenshots ([ScreenCapture] max_screenshots)
    query,                 \* the latest call of get_recent_screenshots by a caller
    sc_running,            \* ScreenCapture.running
    sd_pc,                 \* UI thread position in GamePartner.shutdown
    is_visible,            \* GameOverlay.is_visible
    keys,                  \* number of hotkey presses so far
    applied,               \* history: the instructions the pump has applied
    pumpLeft,              \* history: instructions queued when the pump run started
                           \* that it has not applied yet
    position,              \* GameOverlay.position
    input_shown,           \* GameOverlay.input_frame is packed (the input field shows)
    capture_interval,      \* ScreenCapture.capture_interval, in tenths of a second
    image_path,            \* Screenshot.image_path of each capture, by capture number
    files,                 \* the files in ScreenCapture.screenshot_dir
    dir_exists,            \* ScreenCapture.screenshot_dir exists
    cooldown_config,       \* float(config['AI']['cooldown_seconds'])
    cooldown,              \* GamePartner.analysis_cooldown as __init__ computes it
    trail,                 \* history: the positions the overlay has had
    pump_timer,            \* overlay.after(50, process_updates) is pending
    apply_errors,          \* history: errors the overlay's methods have logged
    force_quit,            \* GamePartner.force_quit
    sd_scheduled,          \* pending overlay.after(0, self.shutdown) callbacks
    signals,               \* history: signals received so far
    sd_calls,              \* history: invocations of GamePartner.shutdown
    sd_runs,               \* history: invocations that got past its guard
    submits,               \* history: times <Return> was pressed in the input field
    entry                  \* history: input_entry.get() at the latest <Return>

vars == << now, screenshots, captured, cap_pc, message_queue, submitted,
           ui_update_queue, conversation_history, last_analysis_time, running,
           pc, message, current_time, response, pumping, overlay_messages,
           calls, req, outcome, reqEnq, successes, drainCount, sentCount,
           dropped, cyclePolls, cycleKinds, prevAuto, curAuto,
           max_screenshots, query, sc_running, sd_pc, is_visible, keys,
           applied, pumpLeft, position, input_shown, capture_interval,
           image_path, files, dir_exists, cooldown_config, cooldown, trail,
           pump_timer, apply_errors, force_quit, sd_scheduled, signals,
           sd_calls, sd_runs, submits, entry >>

----------------------------------------------------------------------------
(* Bounds of the model *)

MaxTime == 10         \* the clock stops here
MaxMsgs == 2          \* messages the user submits
MaxCalls == 3         \* calls of AIClient.analyze
MaxCaptures == 1      \* captures the capture thread takes
MaxShots == 2         \* largest max_screenshots the store is configured with
MaxStoreCaptures == 3 \* captures taken when the store is examined on its own
MaxCount == 3         \* largest count asked of get_recent_screenshots
MaxCooldown == 7      \* largest configured cooldown_seconds
MaxCycleCalls == 9    \* calls of cycle_position in a row
MaxKeys == 1          \* hotkey presses

(* Configuration (config.ini) *)

cooldown_seconds == 1     \* [AI] cooldown_seconds
max_history == 1          \* [AI] memory_window_size
visible_messages == 2     \* [Overlay] visible_messages

(* Program constants *)

MinCooldown == 5

\* int(timestamp): a second, in the tenths of a second capture_interval is
\* measured in
OneSecond == 10

----------------------------------------------------------------------------
(* Helpers *)

Max(a, b) == IF a >= b THEN a ELSE b

Min(a, b) == IF a <= b THEN a ELSE b

Last(s) == s[Len(s)]

\* s[-n:] for n >= 0: -0 is 0, so s[-0:] is s[0:], the whole list
LastN(s, n) ==
    IF n = 0 THEN s ELSE SubSeq(s, Len(s) - Min(n, Len(s)) + 1, Len(s))

\* a float as float() returns it: a number of seconds, or not a number
Num(n) == [nan |-> FALSE, v |-> n]

NaN == [nan |-> TRUE, v |-> 0]

\* b > a on floats: false as soon as one of the two is not a number
Greater(b, a) == ~a.nan /\ ~b.nan /\ b.v > a.v

\* a >= b on floats: false as soon as one of the two is not a number
AtLeast(a, b) == ~a.nan /\ ~b.nan /\ a.v >= b.v

\* a < b on floats: false as soon as one of the two is not a number
Less(a, b) == ~a.nan /\ ~b.nan /\ a.v < b.v

\* Python's max(a, b): a, unless b > a
py_max_First(a, b) == a

py_max(a, b) == IF Greater(b, a) THEN b ELSE a

\* GamePartner.__init__: max(float(config['AI']['cooldown_seconds']), 5.0)
cooldown_of(cfg) == py_max(cfg, Num(MinCooldown))

analysis_cooldown == cooldown_of(Num(cooldown_seconds)).v

NoMessage == << >>

\* the text of the n-th message the user submits (stripped, non-empty)
MsgText(n) == << "m", n >>

\* the replies the remote service can give to the n-th request; the empty
\* text is a reply too
Replies(n) == { << "r", n >>, << >> }

\* AIClient.analyze: f"Error analyzing game state: {str(e)}"
ErrorText == << "Error analyzing game state" >>

\* Python truthiness of a str (if response:)
Truthy(text) == text # << >>

\* AIClient.analyze: the prompt built from game_state
human_message(msg) ==
    IF Truthy(msg) THEN << "User message", msg, "Analyze" >>
                   ELSE << "Analyze" >>

\* ScreenCapture.get_recent_screenshots(count)
get_recent_screenshots_Stale(count) == << 0 >>

get_recent_screenshots_Oldest(count) ==
    SubSeq(screenshots, 1, Min(count, Len(screenshots)))

get_recent_screenshots(count) ==
    IF screenshots # << >> THEN LastN(screenshots, count) ELSE << >>

----------------------------------------------------------------------------
(* Conversation history (AIClient.analyze). ex numbers the exchange a turn
   belongs to: the k-th successful call; 0 for a turn of a failed call. *)

UserTurn(msg, ex) == [role |-> "user", text |-> human_message(msg), ex |-> ex]

AssistantTurn(reply, ex) == [role |-> "assistant", text |-> reply, ex |-> ex]

\* while len(self.conversation_history) > self.max_history * 2: pop(0)
RECURSIVE Trim(_)
Trim(h) == IF Len(h) > max_history * 2 THEN Trim(Tail(h)) ELSE h

\* the call succeeds: both turns are appended, then the history is trimmed
analyze_ok_ReplyOnly(h, msg, reply, ex) ==
    Trim(h \o (IF Truthy(msg) THEN << UserTurn(msg, ex) >> ELSE << >>)
           \o << AssistantTurn(reply, ex) >>)

analyze_ok(h, msg, reply, ex) ==
    Trim(h \o << UserTurn(msg, ex), AssistantTurn(reply, ex) >>)

\* client.messages.create raises: nothing was appended yet
analyze_fail_send(h, msg) == h

\* reading response.content[0].text raises (no content block, or a block
\* without text): the user turn is already appended, the trim is not reached
analyze_fail_text(h, msg) == h \o << UserTurn(msg, 0) >>

Outcomes == { "ok", "fail_send", "fail_text" }

\* the history after a call of analyze that ended with outcome o
HistoryAfter(o, h, msg, reply, ex) ==
    CASE o = "ok"        -> analyze_ok(h, msg, reply, ex)
      [] o = "fail_send" -> analyze_fail_send(h, msg)
      [] o = "fail_text" -> analyze_fail_text(h, msg)

\* what analyze returns
Returned(o, reply) == IF o = "ok" THEN reply ELSE ErrorText

----------------------------------------------------------------------------
(* UI instructions and the overlay. n is the request an instruction was
   enqueued for. *)

\* lambda: self.overlay.add_message(text, time.time(), is_ai=...)
AddMessage(text, isAi, n) ==
    [kind |-> "add_message", text |-> text, is_ai |-> isAi, req |-> n]

\* GameOverlay.update_messages: while len(self.messages) > max_messages: pop(0)
RECURSIVE update_messages(_)
update_messages(ms) ==
    IF Len(ms) > visible_messages THEN update_messages(Tail(ms)) ELSE ms

\* GameOverlay.add_message
add_message(ms, ins) == update_messages(Append(ms, ins))

\* lambda: self.overlay.toggle_visibility(), put by the hotkey listener at
\* its k-th key press
ToggleVisibility(k) ==
    [kind |-> "toggle_visibility", text |-> << "key", k >>, is_ai |-> FALSE,
     req |-> 0]

\* lambda: self.overlay.cycle_position(), put by the hotkey listener at its
\* k-th key press
CyclePosition(k) ==
    [kind |-> "cycle_position", text |-> << "key", k >>, is_ai |-> FALSE,
     req |-> 0]

\* lambda: self.overlay.show_input(), put by the hotkey listener at its k-th
\* key press
ShowInput(k) ==
    [kind |-> "show_input", text |-> << "key", k >>, is_ai |-> FALSE,
     req |-> 0]

\* GameOverlay.POSITION_CYCLE
POSITION_CYCLE ==
    << "bottom-right", "bottom-middle", "bottom-left", "left-middle",
       "top-left", "top-middle", "top-right", "right-middle" >>

\* self.POSITION_CYCLE.index(p), counted from 1; 0 stands for ValueError
IndexOf(p) ==
    IF \E i \in 1..Len(POSITION_CYCLE) : POSITION_CYCLE[i] = p
      THEN CHOOSE i \in 1..Len(POSITION_CYCLE) : POSITION_CYCLE[i] = p
      ELSE 0

\* GameOverlay.cycle_position: the value self.position has afterwards
cycle_position_Skip(p) ==
    IF IndexOf(p) = 0 THEN POSITION_CYCLE[1]
    ELSE POSITION_CYCLE[((IndexOf(p) + 1) % Len(POSITION_CYCLE)) + 1]

cycle_position(p) ==
    IF IndexOf(p) = 0 THEN POSITION_CYCLE[1]
    ELSE POSITION_CYCLE[(IndexOf(p) % Len(POSITION_CYCLE)) + 1]

\* update(): what applying an instruction does to GameOverlay.position
ApplyToPosition(p, ins) ==
    IF ins.kind = "cycle_position" THEN cycle_position(p) ELSE p

\* update(): what applying an instruction does to the input field
ApplyToInput_Always(shown, ins) == TRUE

ApplyToInput(shown, ins) ==
    IF ins.kind = "show_input" THEN TRUE ELSE shown

\* update(): what applying an instruction does to GameOverlay.messages
ApplyToMessages(ms, ins) ==
    IF ins.kind = "add_message" THEN add_message(ms, ins) ELSE ms

\* update(): what applying an instruction does to GameOverlay.is_visible
ApplyToVisible(v, ins) ==
    IF ins.kind = "toggle_visibility" THEN ~v ELSE v

\* process_updates: which queued instruction get_nowait hands out
NextUpdate_Newest(q) == Len(q)

NextUpdate(q) == 1

Remove_Keep(q, i) == q

Remove(q, i) == SubSeq(q, 1, i - 1) \o SubSeq(q, i + 1, Len(q))

----------------------------------------------------------------------------
(* Initial state: the objects as constructed, the analysis thread in its
   initial delay *)

NoEntry == [id |-> 0, text |-> NoMessage, pos0 |-> 0, checks |-> 0]

NoReq == [kind |-> "none", id |-> 0, msg |-> NoMessage, shot |-> 0,
          oldest |-> 0]

NoOutcome == [o |-> "none", reply |-> << >>]

MsgIds == 1..MaxMsgs

NoQuery == [count |-> -1, store |-> << >>, result |-> << >>]

\* the settings read from config.ini: interval is [ScreenCapture]
\* capture_interval, pos is [Overlay] position, cfg is [AI] cooldown_seconds
\* as float() returns it
InitSettings(interval, pos, cfg) ==
    /\ capture_interval = interval
    /\ position = pos
    /\ cooldown_config = cfg
    /\ cooldown = cooldown_of(cfg)

\* ScreenCapture.__init__: shutil.rmtree(self.screenshot_dir) takes the
\* files of the directory away
rmtree_Keep(fs) == fs

rmtree(fs) == { }

\* shots: the captures the capture thread has stored so far; maxShots: the
\* configured max_screenshots; t: the clock at startup. The scratch
\* directory, whatever an earlier run left in it (left), is removed and made
\* anew; the captures stored so far were taken in different seconds, the
\* k-th has the file name k and has saved its file.
InitCore(shots, maxShots, t) ==
    /\ \E left \in SUBSET { 0 } :
         files = rmtree(left) \cup { shots[k] : k \in 1..Len(shots) }
    /\ dir_exists = TRUE
    /\ image_path = shots
    /\ input_shown = FALSE
    /\ now = t
    /\ screenshots = shots
    /\ captured = Len(shots)
    /\ cap_pc = "capture"
    /\ message_queue = << >>
    /\ submitted = 0
    /\ ui_update_queue = << >>
    /\ conversation_history = << >>
    /\ last_analysis_time = 0
    /\ running = TRUE
    /\ pc = "sleep"
    /\ message = NoEntry
    /\ current_time = 0
    /\ response = << >>
    /\ pumping = FALSE
    /\ overlay_messages = << >>
    /\ calls = 0
    /\ req = NoReq
    /\ outcome = NoOutcome
    /\ reqEnq = << >>
    /\ successes = 0
    /\ drainCount = [k \in MsgIds |-> 0]
    /\ sentCount = [k \in MsgIds |-> 0]
    /\ dropped = { }
    /\ cyclePolls = 0
    /\ cycleKinds = << >>
    /\ prevAuto = 0
    /\ curAuto = 0
    /\ max_screenshots = maxShots
    /\ query = NoQuery
    /\ sc_running = TRUE
    /\ sd_pc = "idle"
    /\ is_visible = TRUE
    /\ keys = 0
    /\ applied = { }
    /\ pumpLeft = 0
    /\ pump_timer = TRUE
    /\ apply_errors = 0
    /\ force_quit = FALSE
    /\ sd_scheduled = 0
    /\ signals = 0
    /\ sd_calls = 0
    /\ sd_runs = 0
    /\ submits = 0
    /\ entry = << >>

\* one capture a second, the overlay at its default position
InitAt(shots, maxShots, t) ==
    /\ InitCore(shots, maxShots, t)
    /\ InitSettings(OneSecond, POSITION_CYCLE[1], Num(cooldown_seconds))
    /\ trail = << >>

\* the clock at startup is epoch seconds: far beyond any cooldown
InitConfig(shots, maxShots) == InitAt(shots, maxShots, analysis_cooldown)

\* a store that keeps the latest capture only
InitWith(shots) == InitConfig(shots, 1)

\* right after construction: nothing captured yet
Init == InitWith(<< >>)

\* the capture thread, started before the analysis thread, has stored its
\* first capture
InitUI == InitWith(<< 1 >>)

coordVars == << conversation_history, last_analysis_time, pc, message,
                current_time, response, calls, req, outcome, reqEnq,
                successes, drainCount, sentCount, dropped, cyclePolls,
                cycleKinds, prevAuto, curAuto >>

\* the overlay's position and input field
ovVars == << position, input_shown >>

\* the scratch directory
fsVars == << image_path, files, dir_exists >>

\* what the program never changes after construction, and the history of
\* the overlay's positions
confVars == << capture_interval, cooldown_config, cooldown, trail >>

\* the signal handler's state and the history of shutdown's invocations
sigVars == << force_quit, sd_scheduled, signals, sd_calls, sd_runs >>

\* the history of the input field
inVars == << submits, entry >>

setVars == << confVars, pump_timer, apply_errors, sigVars, inVars >>

extraVars == << max_screenshots, query, sc_running, sd_pc, is_visible, keys,
                applied, pumpLeft, ovVars, fsVars, setVars >>

----------------------------------------------------------------------------
(* Capture thread (ScreenCapture._capture_loop) *)

\* self.screenshots.pop(0)
Pop0_Newest(s) == SubSeq(s, 1, Len(s) - 1)

Pop0(s) == Tail(s)

\* while self.running: at the top of _capture_loop, after time.sleep
CaptureLoopTest == IF sc_running THEN "capture" ELSE "exited"

\* what the capture thread leaves alone besides the store and the scratch
\* directory
capFrame == << max_screenshots, query, sc_running, sd_pc, is_visible, keys,
               applied, pumpLeft, ovVars, dir_exists, setVars >>

\* the captures so far whose timestamp lies in the same second as the
\* latest one's
SameSecond == { k \in 1..captured : image_path[k] = image_path[captured] }

\* filename = f"screenshot_{int(timestamp)}.png": the names the next capture
\* may get. A name stands for a second and is the number of the first
\* capture taken in it. Two captures are at least capture_interval apart, so
\* the next one falls in the second of the latest one only while the
\* captures of that second, one interval apart, still fit in a second.
FileNames ==
    { captured + 1 } \cup
    ( IF captured > 0 /\ Cardinality(SameSecond) * capture_interval < OneSecond
        THEN { image_path[captured] }
        ELSE { } )

\* img = self._capture_screen() returns an image; img.save(filepath) writes
\* the file, or raises when the directory is gone (logged, sleep, loop test);
\* self.screenshots.append(Screenshot(filepath, timestamp)). limit bounds the
\* captures taken
Capture(limit) ==
    /\ cap_pc = "capture"
    /\ captured < limit
    /\ IF dir_exists
         THEN \E name \in FileNames :
                /\ captured' = captured + 1
                /\ image_path' = Append(image_path, name)
                /\ files' = files \cup { name }
                /\ screenshots' = Append(screenshots, captured + 1)
                /\ cap_pc' = "evict"
         ELSE /\ cap_pc' = CaptureLoopTest
              /\ UNCHANGED << captured, image_path, files, screenshots >>
    /\ UNCHANGED << now, message_queue, submitted, ui_update_queue, running,
                    pumping, overlay_messages >>
    /\ UNCHANGED coordVars
    /\ UNCHANGED capFrame

CaptureAppend == Capture(MaxCaptures)

\* os.remove(old_screenshot.image_path): the file of that name goes, if
\* there is one (else the error is logged)
os_remove(fs, old) == fs \ { image_path[old] }

\* while len(self.screenshots) > self.max_screenshots:
\* old_screenshot = self.screenshots.pop(0); os.remove(its image_path);
\* then time.sleep(self.capture_interval) and the loop test
CaptureEvict ==
    /\ cap_pc = "evict"
    /\ IF Len(screenshots) > max_screenshots
         THEN /\ screenshots' = Pop0(screenshots)
              /\ files' = os_remove(files, Head(screenshots))
              /\ cap_pc' = "evict"
         ELSE /\ screenshots' = screenshots
              /\ files' = files
              /\ cap_pc' = CaptureLoopTest
    /\ image_path' = image_path
    /\ UNCHANGED << now, captured, message_queue, submitted, ui_update_queue,
                    running, pumping, overlay_messages >>
    /\ UNCHANGED coordVars
    /\ UNCHANGED capFrame

----------------------------------------------------------------------------
(* UI thread *)

\* GameOverlay._on_submit -> message_callback -> self.message_queue.put(msg),
\* then self.hide_input().
\* pos0 is the place the message takes in the inbox, checks the polls of the
\* inbox it has seen since.
Submit ==
    /\ submitted < MaxMsgs
    /\ submitted' = submitted + 1
    /\ message_queue' = Append(message_queue,
           [id |-> submitted + 1, text |-> MsgText(submitted + 1),
            pos0 |-> Len(message_queue) + 1, checks |-> 0])
    /\ input_shown' = FALSE
    /\ UNCHANGED << now, screenshots, captured, cap_pc, ui_update_queue,
                    running, pumping, overlay_messages >>
    /\ UNCHANGED coordVars
    /\ UNCHANGED << max_screenshots, query, sc_running, sd_pc, is_visible,
                    keys, applied, pumpLeft, position, fsVars, setVars >>

\* the after(50, process_updates) timer fires; left is what the history
\* variable pumpLeft records
PumpStartWith(left) ==
    /\ ~pumping
    /\ running
    /\ pump_timer
    /\ pump_timer' = FALSE
    /\ pumping' = TRUE
    /\ pumpLeft' = left
    /\ UNCHANGED << now, screenshots, captured, cap_pc, message_queue,
                    submitted, ui_update_queue, running, overlay_messages >>
    /\ UNCHANGED << max_screenshots, query, sc_running, sd_pc, is_visible,
                    keys, applied, ovVars, fsVars, confVars, apply_errors,
                    sigVars, inVars >>
    /\ UNCHANGED coordVars

PumpStart == PumpStartWith(pumpLeft)

\* the same, with the history variables kept
PumpStartLogged == PumpStartWith(Len(ui_update_queue))

\* update = self.ui_update_queue.get_nowait(); update(). logged: the history
\* variables applied and pumpLeft are kept
PumpApplyWith(logged) ==
    /\ pumping
    /\ ui_update_queue # << >>
    /\ LET i == NextUpdate(ui_update_queue) IN
         /\ ui_update_queue' = Remove(ui_update_queue, i)
         /\ overlay_messages' = ApplyToMessages(overlay_messages, ui_update_queue[i])
         /\ is_visible' = ApplyToVisible(is_visible, ui_update_queue[i])
         /\ position' = ApplyToPosition(position, ui_update_queue[i])
         /\ input_shown' = ApplyToInput(input_shown, ui_update_queue[i])
         /\ applied' = IF logged THEN applied \cup { ui_update_queue[i] }
                                 ELSE applied
    /\ pumpLeft' = IF logged THEN Max(pumpLeft - 1, 0) ELSE pumpLeft
    /\ UNCHANGED << now, screenshots, captured, cap_pc, message_queue,
                    submitted, running, pumping >>
    /\ UNCHANGED << max_screenshots, query, sc_running, sd_pc, keys, fsVars,
                    setVars >>
    /\ UNCHANGED coordVars

PumpApply == PumpApplyWith(FALSE)

PumpApplyLogged == PumpApplyWith(TRUE)

\* except queue.Empty: break;
\* if self.running: self.overlay.after(50, process_updates)
PumpEnd ==
    /\ pumping
    /\ ui_update_queue = << >>
    /\ pumping' = FALSE
    /\ pump_timer' = running
    /\ UNCHANGED << now, screenshots, captured, cap_pc, message_queue,
                    submitted, ui_update_queue, running, overlay_messages >>
    /\ UNCHANGED << max_screenshots, query, sc_running, sd_pc, is_visible,
                    keys, applied, pumpLeft, ovVars, fsVars, confVars,
                    apply_errors, sigVars, inVars >>
    /\ UNCHANGED coordVars

\* the instructions the k-th key press may put: Ctrl+Shift+End, Home, Enter
HotkeyInstructions(k) == { ToggleVisibility(k), CyclePosition(k), ShowInput(k) }

\* GamePartner.setup_hotkeys.on_press, on the hotkey listener thread: the
\* hotkey's instruction is put on the queue. The listener runs until shutdown
\* stops it. limit: the presses the model follows.
HotkeyPressUpTo(limit) ==
    /\ keys < limit
    /\ sd_pc \in { "idle", "stop_threads" }
    /\ keys' = keys + 1
    /\ \E ins \in HotkeyInstructions(keys + 1) :
         ui_update_queue' = Append(ui_update_queue, ins)
    /\ UNCHANGED << now, screenshots, captured, cap_pc, message_queue,
                    submitted, running, pumping, overlay_messages >>
    /\ UNCHANGED << max_screenshots, query, sc_running, sd_pc, is_visible,
                    applied, pumpLeft, ovVars, fsVars, setVars >>
    /\ UNCHANGED coordVars

HotkeyPress == HotkeyPressUpTo(MaxKeys)

\* img = self._capture_screen() returns None: nothing is stored; then
\* time.sleep(self.capture_interval) and the loop test
CaptureFail ==
    /\ cap_pc = "capture"
    /\ cap_pc' = CaptureLoopTest
    /\ UNCHANGED << now, screenshots, captured, message_queue, submitted,
                    ui_update_queue, running, pumping, overlay_messages >>
    /\ UNCHANGED coordVars
    /\ UNCHANGED << capFrame, image_path, files >>

----------------------------------------------------------------------------
(* GamePartner.shutdown, a callback on the UI thread: it runs between two
   other callbacks, never inside a run of the pump *)

\* what no step of shutdown changes
sdFrame == << now, screenshots, captured, message_queue, submitted,
              ui_update_queue, pumping, overlay_messages, max_screenshots,
              query, is_visible, keys, applied, pumpLeft, ovVars, image_path,
              setVars >>

coordRest == << last_analysis_time, message, current_time, response, calls,
                req, outcome, reqEnq, successes, drainCount, sentCount,
                dropped, cyclePolls, cycleKinds, prevAuto, curAuto >>

\* if not self.running: return;  self.running = False
ShutdownBegin ==
    /\ sd_pc = "idle"
    /\ ~pumping
    /\ running
    /\ running' = FALSE
    /\ sd_pc' = "stop_threads"
    /\ UNCHANGED << sc_running, cap_pc, conversation_history, pc >>
    /\ UNCHANGED << files, dir_exists >>
    /\ UNCHANGED sdFrame
    /\ UNCHANGED coordRest

\* self.hotkey_listener.stop(); ScreenCapture.stop: self.running = False
ShutdownStopThreads ==
    /\ sd_pc = "stop_threads"
    /\ sc_running' = FALSE
    /\ sd_pc' = "join_capture"
    /\ UNCHANGED << running, cap_pc, conversation_history, pc >>
    /\ UNCHANGED << files, dir_exists >>
    /\ UNCHANGED sdFrame
    /\ UNCHANGED coordRest

\* ScreenCapture.stop: self.capture_thread.join() returns when the capture
\* thread has ended, and only then; ScreenCapture.cleanup follows:
\* shutil.rmtree(self.screenshot_dir)
JoinCaptureReturns_Bounded == TRUE

JoinCaptureReturns == cap_pc = "exited"

ShutdownJoinCapture ==
    /\ sd_pc = "join_capture"
    /\ JoinCaptureReturns
    /\ sd_pc' = "join_analysis"
    /\ files' = rmtree(files)
    /\ dir_exists' = FALSE
    /\ UNCHANGED << running, sc_running, cap_pc, conversation_history, pc >>
    /\ UNCHANGED sdFrame
    /\ UNCHANGED coordRest

\* self.analysis_thread.join(timeout=2.0) returns when the analysis thread
\* has ended or when the two seconds are over
JoinAnalysisReturns_Unbounded == pc = "done"

JoinAnalysisReturns == TRUE

\* the join returns; self.overlay.destroy()
ShutdownJoinAnalysis ==
    /\ sd_pc = "join_analysis"
    /\ JoinAnalysisReturns
    /\ sd_pc' = "cleanup"
    /\ UNCHANGED << running, sc_running, cap_pc, conversation_history, pc >>
    /\ UNCHANGED << files, dir_exists >>
    /\ UNCHANGED sdFrame
    /\ UNCHANGED coordRest

\* self.ai_client.cleanup(): self.conversation_history.clear()
ShutdownCleanup ==
    /\ sd_pc = "cleanup"
    /\ conversation_history' = << >>
    /\ sd_pc' = "exit"
    /\ UNCHANGED << running, sc_running, cap_pc, pc >>
    /\ UNCHANGED << files, dir_exists >>
    /\ UNCHANGED sdFrame
    /\ UNCHANGED coordRest

\* sys.exit(0): the process ends and takes the daemon threads with it
ShutdownExit ==
    /\ sd_pc = "exit"
    /\ sd_pc' = "exited"
    /\ pc' = IF pc = "done" THEN "done" ELSE "killed"
    /\ cap_pc' = IF cap_pc = "exited" THEN "exited" ELSE "killed"
    /\ UNCHANGED << running, sc_running, conversation_history >>
    /\ UNCHANGED << files, dir_exists >>
    /\ UNCHANGED sdFrame
    /\ UNCHANGED coordRest

----------------------------------------------------------------------------
(* Analysis thread (GamePartner._analysis_loop) *)

uiSide == << now, screenshots, captured, cap_pc, submitted, running, pumping,
             overlay_messages, max_screenshots, query, sc_running, sd_pc,
             is_visible, keys, applied, pumpLeft, ovVars, fsVars, setVars >>

\* self.message_queue.get_nowait() removes the head; every entry left behind
\* has seen one more poll of the inbox
Drain_Peek(q) == [i \in 1..Len(q) |-> [q[i] EXCEPT !.checks = @ + 1]]

Drain_All(q) == << >>

Drain(q) == [i \in 1..(Len(q) - 1) |-> [q[i + 1] EXCEPT !.checks = @ + 1]]

\* where the iteration goes on after the inbox was polled and a message, if
\* any, was processed: line 173, the periodic check
AfterMessage_Again == "get_msg"

AfterMessage_Stop == "done"

AfterMessage == "auto_check"

\* current_time - self.last_analysis_time >= self.analysis_cooldown
CooldownElapsed_Always(t) == TRUE

CooldownElapsed(t) == AtLeast(Num(t - last_analysis_time), cooldown)

\* self.last_analysis_time = current_time (line 181)
NewLastAnalysisTime_Stale == last_analysis_time

NewLastAnalysisTime_OnSuccess ==
    IF response = ErrorText THEN last_analysis_time ELSE current_time

NewLastAnalysisTime == current_time

\* the calls of ui_update_queue.put that follow a call of analyze for a user
\* message (lines 212-214): the user's text, then the response if truthy
MessagePuts_ReplyFirst(msg, resp, n) ==
    (IF Truthy(resp) THEN << AddMessage(resp, TRUE, n) >> ELSE << >>)
        \o << AddMessage(msg, FALSE, n) >>

MessagePuts_ReplyOnly(msg, resp, n) ==
    IF Truthy(resp) THEN << AddMessage(resp, TRUE, n) >> ELSE << >>

MessagePuts(msg, resp, n) ==
    << AddMessage(msg, FALSE, n) >>
        \o (IF Truthy(resp) THEN << AddMessage(resp, TRUE, n) >> ELSE << >>)

\* the calls of ui_update_queue.put that follow a call of analyze in
\* _analyze_game_state (lines 240-241)
AnalysisPuts_Silent(resp, n) ==
    IF Truthy(resp) /\ resp # ErrorText
      THEN << AddMessage(resp, TRUE, n) >> ELSE << >>

AnalysisPuts(resp, n) ==
    IF Truthy(resp) THEN << AddMessage(resp, TRUE, n) >> ELSE << >>

\* the oldest message that waits for a request: the one being processed, or
\* the head of the inbox
OldestPending ==
    IF message # NoEntry THEN message.id
    ELSE IF message_queue # << >> THEN Head(message_queue).id
    ELSE 0

\* the iteration ends at time.sleep(0.1): current_time is not read again and
\* the count of what the iteration did starts anew
EndIteration ==
    /\ pc' = "sleep"
    /\ current_time' = 0
    /\ cyclePolls' = 0
    /\ cycleKinds' = << >>

\* while self.running: at the head of _analysis_loop
WhileRunning_Forever == TRUE

WhileRunning == running

\* time.sleep ends; while self.running: . What is remembered of the latest
\* request is dropped when the next iteration begins.
LoopTest ==
    /\ pc = "sleep"
    /\ pc' = IF WhileRunning THEN "get_msg" ELSE "done"
    /\ req' = NoReq
    /\ outcome' = NoOutcome
    /\ reqEnq' = << >>
    /\ UNCHANGED << conversation_history, last_analysis_time, message,
                    current_time, response, calls, successes, drainCount,
                    sentCount, dropped, cyclePolls, cycleKinds, prevAuto,
                    curAuto, message_queue, ui_update_queue >>
    /\ UNCHANGED uiSide

\* message = self.message_queue.get_nowait()  /  except queue.Empty: pass
GetMessage ==
    /\ pc = "get_msg"
    /\ cyclePolls' = cyclePolls + 1
    /\ IF message_queue # << >>
         THEN /\ message' = [Head(message_queue) EXCEPT !.checks = @ + 1]
              /\ message_queue' = Drain(message_queue)
              /\ drainCount' = [drainCount EXCEPT
                                   ![Head(message_queue).id] = @ + 1]
              /\ pc' = "pm_read"
         ELSE /\ UNCHANGED << message, message_queue, drainCount >>
              /\ pc' = AfterMessage
    /\ UNCHANGED << conversation_history, last_analysis_time, current_time,
                    response, calls, req, outcome, reqEnq, successes,
                    sentCount, dropped, cycleKinds, prevAuto, curAuto,
                    ui_update_queue >>
    /\ UNCHANGED uiSide

\* response = self.ai_client.analyze(game_state): the analysis thread is
\* inside the call, at position p, until the call returns
InCall_NoWait(p) == IF p = "pm_call" THEN "auto_check" ELSE p

InCall(p) == p

\* _process_message up to the call of analyze: the store is read; empty, the
\* message is given up; else the request is built and sent. newLast is the
\* value last_analysis_time has afterwards.
ProcessMessageIssue(newLast) ==
    /\ pc = "pm_read"
    /\ LET shots == get_recent_screenshots(1) IN
         IF shots = << >>
           THEN /\ pc' = AfterMessage
                /\ message' = NoEntry
                /\ dropped' = dropped \cup { message.id }
                /\ UNCHANGED << calls, req, outcome, reqEnq, sentCount,
                                cycleKinds >>
           ELSE /\ calls < MaxCalls
                /\ calls' = calls + 1
                /\ req' = [kind |-> "user", id |-> message.id,
                           msg |-> message.text, shot |-> Last(shots),
                           oldest |-> OldestPending]
                /\ outcome' = NoOutcome
                /\ reqEnq' = << >>
                /\ sentCount' = [sentCount EXCEPT ![message.id] = @ + 1]
                /\ cycleKinds' = Append(cycleKinds, "user")
                /\ pc' = InCall("pm_call")
                /\ UNCHANGED << message, dropped >>
    /\ last_analysis_time' = newLast
    /\ UNCHANGED << conversation_history, current_time, response, successes,
                    drainCount, cyclePolls, prevAuto, curAuto, message_queue,
                    ui_update_queue >>
    /\ UNCHANGED uiSide

ProcessMessageRead_AdvancesLast == ProcessMessageIssue(now)

ProcessMessageRead == ProcessMessageIssue(last_analysis_time)

\* response = self.ai_client.analyze(game_state) returns
ProcessMessageReturn ==
    /\ pc = "pm_call"
    /\ \E o \in Outcomes, reply \in Replies(calls) :
         /\ conversation_history' =
                HistoryAfter(o, conversation_history, message.text, reply,
                             successes + 1)
         /\ successes' = IF o = "ok" THEN successes + 1 ELSE successes
         /\ outcome' = [o |-> o, reply |-> Returned(o, reply)]
         /\ IF MessagePuts(message.text, Returned(o, reply), calls) # << >>
              THEN /\ pc' = "pm_put"
                   /\ response' = Returned(o, reply)
                   /\ UNCHANGED message
              ELSE /\ pc' = AfterMessage
                   /\ response' = << >>
                   /\ message' = NoEntry
    /\ UNCHANGED << last_analysis_time, current_time, calls, req, reqEnq,
                    drainCount, sentCount, dropped, cyclePolls, cycleKinds,
                    prevAuto, curAuto, message_queue, ui_update_queue >>
    /\ UNCHANGED uiSide

\* self.ui_update_queue.put(...), one call a step; _process_message returns
\* after the last
ProcessMessagePut ==
    /\ pc = "pm_put"
    /\ LET puts == MessagePuts(message.text, response, calls)
           k    == Len(reqEnq) + 1
       IN
         /\ k <= Len(puts)
         /\ ui_update_queue' = Append(ui_update_queue, puts[k])
         /\ reqEnq' = Append(reqEnq, puts[k])
         /\ IF k = Len(puts)
              THEN /\ pc' = AfterMessage
                   /\ message' = NoEntry
                   /\ response' = << >>
              ELSE UNCHANGED << pc, message, response >>
    /\ UNCHANGED << conversation_history, last_analysis_time, current_time,
                    calls, req, outcome, successes, drainCount, sentCount,
                    dropped, cyclePolls, cycleKinds, prevAuto, curAuto,
                    message_queue >>
    /\ UNCHANGED uiSide

\* current_time = time.time(): the clock is read, and it has not gone back
\* since the last reading; then the cooldown test and the loop's own read of
\* the store (lines 174-183). current_time is not read again once the
\* iteration ends.
AutoCheck ==
    /\ pc = "auto_check"
    /\ \E t \in now..MaxTime :
         /\ now' = t
         /\ IF CooldownElapsed(t) /\ get_recent_screenshots(1) # << >>
              THEN /\ pc' = "ag_read"
                   /\ current_time' = t
                   /\ UNCHANGED << cyclePolls, cycleKinds >>
              ELSE EndIteration
    /\ UNCHANGED << conversation_history, last_analysis_time, message,
                    response, calls, req, outcome, reqEnq, successes,
                    drainCount, sentCount, dropped, prevAuto, curAuto,
                    message_queue, ui_update_queue >>
    /\ UNCHANGED << screenshots, captured, cap_pc, submitted, running, pumping,
                    overlay_messages >>
    /\ UNCHANGED extraVars

\* _analyze_game_state up to the call of analyze: the store is read again;
\* empty, it returns and line 181 runs; else the request is built and sent
AnalyzeRead ==
    /\ pc = "ag_read"
    /\ LET shots == get_recent_screenshots(1) IN
         IF shots = << >>
           THEN /\ EndIteration
                /\ last_analysis_time' = NewLastAnalysisTime
                /\ UNCHANGED << calls, req, outcome, reqEnq, prevAuto,
                                curAuto >>
           ELSE /\ calls < MaxCalls
                /\ calls' = calls + 1
                /\ req' = [kind |-> "auto", id |-> 0, msg |-> NoMessage,
                           shot |-> Last(shots), oldest |-> OldestPending]
                /\ outcome' = NoOutcome
                /\ reqEnq' = << >>
                /\ cycleKinds' = Append(cycleKinds, "auto")
                /\ prevAuto' = curAuto
                /\ curAuto' = current_time
                /\ pc' = InCall("ag_call")
                /\ UNCHANGED << last_analysis_time, current_time, cyclePolls >>
    /\ UNCHANGED << conversation_history, message, response, successes,
                    drainCount, sentCount, dropped, message_queue,
                    ui_update_queue >>
    /\ UNCHANGED uiSide

\* response = self.ai_client.analyze(game_state) returns; with nothing to
\* enqueue _analyze_game_state returns and line 181 runs
AnalyzeReturn ==
    /\ pc = "ag_call"
    /\ \E o \in Outcomes, reply \in Replies(calls) :
         /\ conversation_history' =
                HistoryAfter(o, conversation_history, NoMessage, reply,
                             successes + 1)
         /\ successes' = IF o = "ok" THEN successes + 1 ELSE successes
         /\ outcome' = [o |-> o, reply |-> Returned(o, reply)]
         /\ IF AnalysisPuts(Returned(o, reply), calls) # << >>
              THEN /\ pc' = "ag_put"
                   /\ response' = Returned(o, reply)
                   /\ UNCHANGED << last_analysis_time, current_time,
                                   cyclePolls, cycleKinds >>
              ELSE /\ EndIteration
                   /\ response' = << >>
                   /\ last_analysis_time' = NewLastAnalysisTime
    /\ UNCHANGED << message, calls, req, reqEnq, drainCount, sentCount,
                    dropped, prevAuto, curAuto, message_queue,
                    ui_update_queue >>
    /\ UNCHANGED uiSide

\* self.ui_update_queue.put(...); _analyze_game_state returns;
\* self.last_analysis_time = current_time
AnalyzePut ==
    /\ pc = "ag_put"
    /\ LET puts == AnalysisPuts(response, calls)
           k    == Len(reqEnq) + 1
       IN
         /\ k <= Len(puts)
         /\ ui_update_queue' = Append(ui_update_queue, puts[k])
         /\ reqEnq' = Append(reqEnq, puts[k])
         /\ IF k = Len(puts)
              THEN /\ EndIteration
                   /\ response' = << >>
                   /\ last_analysis_time' = NewLastAnalysisTime
              ELSE UNCHANGED << pc, response, last_analysis_time,
                                current_time, cyclePolls, cycleKinds >>
    /\ UNCHANGED << conversation_history, message, calls, req, outcome,
                    successes, drainCount, sentCount, dropped, prevAuto,
                    curAuto, message_queue >>
    /\ UNCHANGED uiSide

----------------------------------------------------------------------------
(* Specifications *)

\* the analysis thread with the capture thread and the user's messages
Next ==
    \/ CaptureAppend
    \/ CaptureEvict
    \/ Submit
    \/ LoopTest
    \/ GetMessage
    \/ ProcessMessageRead
    \/ ProcessMessageReturn
    \/ ProcessMessagePut
    \/ AutoCheck
    \/ AnalyzeRead
    \/ AnalyzeReturn
    \/ AnalyzePut

Spec == Init /\ [][Next]_vars

\* the analysis thread with the UI thread: the user's messages and the pump
NextUI ==
    \/ Submit
    \/ PumpStart
    \/ PumpApply
    \/ PumpEnd
    \/ LoopTest
    \/ GetMessage
    \/ ProcessMessageRead
    \/ ProcessMessageReturn
    \/ ProcessMessagePut
    \/ AutoCheck
    \/ AnalyzeRead
    \/ AnalyzeReturn
    \/ AnalyzePut

SpecUI == InitUI /\ [][NextUI]_vars

\* The screenshot store on its own: the capture thread fills a store of any
\* configured capacity while a caller asks for recent screenshots.
InitStore == \E m \in 0..MaxShots : InitConfig(<< >>, m)

StoreCapture == Capture(MaxStoreCaptures)

\* screenshots = self.screen_capture.get_recent_screenshots(count), called
\* between any two steps of the capture thread
Query ==
    /\ \E c \in 0..MaxCount :
         query' = [count |-> c, store |-> screenshots,
                   result |-> get_recent_screenshots(c)]
    /\ UNCHANGED << now, screenshots, captured, cap_pc, message_queue,
                    submitted, ui_update_queue, running, pumping,
                    overlay_messages >>
    /\ UNCHANGED << max_screenshots, sc_running, sd_pc, is_visible, keys,
                    applied, pumpLeft, ovVars, fsVars, setVars >>
    /\ UNCHANGED coordVars

NextStore ==
    \/ StoreCapture
    \/ CaptureEvict
    \/ Query

SpecStore == InitStore /\ [][NextStore]_vars

\* The analysis thread scheduled fairly: it always gets to run its next
\* step, but a call of the remote service may never return. The clock
\* stands at its last value.
InitLoop == InitAt(<< >>, 1, MaxTime)

AnalysisThread ==
    \/ LoopTest
    \/ GetMessage
    \/ ProcessMessageRead
    \/ ProcessMessagePut
    \/ AutoCheck
    \/ AnalyzeRead
    \/ AnalyzePut

SpecLoop == InitLoop /\ [][Next]_vars /\ WF_vars(AnalysisThread)

\* The pump beside the analysis thread with the user's messages. The clock
\* stands at its last value; the first capture is stored.
InitPump == InitAt(<< 1 >>, 1, MaxTime)

NextPump ==
    \/ Submit
    \/ PumpStartLogged
    \/ PumpApplyLogged
    \/ PumpEnd
    \/ LoopTest
    \/ GetMessage
    \/ ProcessMessageRead
    \/ ProcessMessageReturn
    \/ ProcessMessagePut
    \/ AutoCheck
    \/ AnalyzeRead
    \/ AnalyzeReturn
    \/ AnalyzePut

SpecPump == InitPump /\ [][NextPump]_vars

\* The program up to its exit: hotkeys, the pump, the capture thread, the
\* analysis thread in its automatic cycles, and shutdown. The clock stands
\* at its last value. Scheduling: the UI thread always gets to run its next
\* callback and the next step of shutdown, and the analysis thread its next
\* step; a call of the remote service may never return, and a capture
\* attempt may never return.
InitShutdown == InitAt(<< >>, 1, MaxTime)

UIThread ==
    \/ PumpStartLogged
    \/ PumpApplyLogged
    \/ PumpEnd
    \/ ShutdownStopThreads
    \/ ShutdownJoinCapture
    \/ ShutdownJoinAnalysis
    \/ ShutdownCleanup
    \/ ShutdownExit

NextShutdown ==
    \/ CaptureAppend
    \/ CaptureEvict
    \/ CaptureFail
    \/ HotkeyPress
    \/ PumpStartLogged
    \/ PumpApplyLogged
    \/ PumpEnd
    \/ ShutdownBegin
    \/ ShutdownStopThreads
    \/ ShutdownJoinCapture
    \/ ShutdownJoinAnalysis
    \/ ShutdownCleanup
    \/ ShutdownExit
    \/ LoopTest
    \/ GetMessage
    \/ AutoCheck
    \/ AnalyzeRead
    \/ AnalyzeReturn
    \/ AnalyzePut

SpecShutdown ==
    /\ InitShutdown
    /\ [][NextShutdown]_vars
    /\ WF_vars(UIThread)
    /\ WF_vars(AnalysisThread)

\* The analysis thread beside a store configured to retain nothing
\* (max_screenshots = 0): a capture is in the store only between its append
\* and its eviction.
InitRace == InitConfig(<< >>, 0)

SpecRace == InitRace /\ [][Next]_vars

\* The analysis thread reading a store of any configured capacity while the
\* capture thread goes on appending and evicting. The clock stands at its
\* last value.
InitRead == \E m \in 0..MaxShots : InitAt(<< >>, m, MaxTime)

NextRead ==
    \/ StoreCapture
    \/ CaptureEvict
    \/ Submit
    \/ LoopTest
    \/ GetMessage
    \/ ProcessMessageRead
    \/ ProcessMessageReturn
    \/ ProcessMessagePut
    \/ AutoCheck
    \/ AnalyzeRead
    \/ AnalyzeReturn
    \/ AnalyzePut

SpecRead == InitRead /\ [][NextRead]_vars

\* The automatic cycles under every configured cooldown: what float() may
\* return for [AI] cooldown_seconds is a number, negative, zero or positive,
\* or not a number ("nan" parses). The first capture is stored.
CooldownValues == { Num(n) : n \in -1..MaxCooldown } \cup { NaN }

InitCooldown ==
    \E cfg \in CooldownValues :
       /\ InitCore(<< 1 >>, 1, MinCooldown)
       /\ InitSettings(OneSecond, POSITION_CYCLE[1], cfg)
       /\ trail = << >>

NextCooldown ==
    \/ LoopTest
    \/ GetMessage
    \/ AutoCheck
    \/ AnalyzeRead
    \/ AnalyzeReturn
    \/ AnalyzePut

SpecCooldown == InitCooldown /\ [][NextCooldown]_vars

\* cycle_position on its own: the overlay starts at any configured position,
\* one of POSITION_CYCLE or not, and the pump applies cycle_position
\* instructions one after the other.
Positions ==
    { POSITION_CYCLE[i] : i \in 1..Len(POSITION_CYCLE) }
      \cup { "center", "Bottom-Right", "" }

InitCycle ==
    \E pos \in Positions :
       /\ InitCore(<< >>, 1, MaxTime)
       /\ InitSettings(OneSecond, pos, Num(cooldown_seconds))
       /\ trail = << pos >>

\* update() of a lambda: self.overlay.cycle_position()
CyclePositionCall ==
    /\ Len(trail) <= MaxCycleCalls
    /\ position' = cycle_position(position)
    /\ trail' = Append(trail, position')
    /\ UNCHANGED << now, screenshots, captured, cap_pc, message_queue,
                    submitted, ui_update_queue, running, pumping,
                    overlay_messages >>
    /\ UNCHANGED << max_screenshots, query, sc_running, sd_pc, is_visible,
                    keys, applied, pumpLeft, input_shown, fsVars,
                    capture_interval, cooldown_config, cooldown,
                    pump_timer, apply_errors, sigVars, inVars >>
    /\ UNCHANGED coordVars

NextCycle == CyclePositionCall

SpecCycle == InitCycle /\ [][NextCycle]_vars

\* The scratch directory beside the store: the capture thread saves, appends
\* and evicts under any configured capacity and any configured interval,
\* three tenths of a second, half a second or a second, while a caller asks
\* for recent screenshots.
CaptureIntervals == { 3, 5, OneSecond }

InitFiles ==
    \E m \in 0..MaxShots, interval \in CaptureIntervals :
       /\ InitCore(<< >>, m, MaxTime)
       /\ InitSettings(interval, POSITION_CYCLE[1], Num(cooldown_seconds))
       /\ trail = << >>

NextFiles ==
    \/ StoreCapture
    \/ CaptureEvict
    \/ Query

SpecFiles == InitFiles /\ [][NextFiles]_vars

\* The analysis thread with the user's messages while shutdown runs: the
\* capture thread, every step of shutdown, and the whole analysis loop. The
\* clock stands at its last value. Scheduling: the analysis thread always
\* gets to run its next step; a call of the remote service may never return.
InitStop == InitAt(<< >>, 1, MaxTime)

NextStop ==
    \/ CaptureAppend
    \/ CaptureEvict
    \/ CaptureFail
    \/ Submit
    \/ ShutdownBegin
    \/ ShutdownStopThreads
    \/ ShutdownJoinCapture
    \/ ShutdownJoinAnalysis
    \/ ShutdownCleanup
    \/ ShutdownExit
    \/ LoopTest
    \/ GetMessage
    \/ ProcessMessageRead
    \/ ProcessMessageReturn
    \/ ProcessMessagePut
    \/ AutoCheck
    \/ AnalyzeRead
    \/ AnalyzeReturn
    \/ AnalyzePut

SpecStop == InitStop /\ [][NextStop]_vars /\ WF_vars(AnalysisThread)

----------------------------------------------------------------------------
(* Properties *)

\* the latest request has been dealt with: analyze has returned and every
\* instruction that follows from it is enqueued
Handled == outcome.o # "none" /\ pc \notin { "pm_put", "ag_put" }

\* message k has left the inbox and its processing is over
Processed(k) == drainCount[k] >= 1 /\ message.id # k

\* C1, as stated: at most one remote request is issued per iteration of the
\* analysis loop; a drained message consumes the iteration and the periodic
\* check is skipped.
C1_OneRequestPerIteration == Len(cycleKinds) <= 1

\* C1, amended: an iteration issues at most one request for a drained message
\* and at most one automatic request, in that order; the periodic check is
\* made in the same iteration after a message was processed. The inbox is
\* polled once an iteration.
C1_RequestsPerIteration ==
    /\ cycleKinds \in { << >>, << "user" >>, << "auto" >>, << "user", "auto" >> }
    /\ cyclePolls <= 1

\* C1 witness: a message was processed and the automatic request was issued
\* in the same iteration.
C1_Witness == cycleKinds = << "user", "auto" >> /\ pc = "ag_call"

\* C2, as stated: whenever a request is sent while a message waits, the
\* request carries the oldest waiting message; and every message that was
\* taken from the inbox appears in exactly one request.
C2_NextRequestUsesHead ==
    /\ req.kind # "none" /\ req.oldest # 0 => req.id = req.oldest
    /\ \A k \in MsgIds : Processed(k) => sentCount[k] = 1

\* C2, amended: every message leaves the inbox at most once and appears in
\* at most one request; a message taken while the store holds a screenshot
\* is the text of the request sent by that iteration, a message taken while
\* the store is empty appears in no request.
C2_MessageAtMostOnce ==
    /\ \A k \in MsgIds :
         /\ drainCount[k] <= 1
         /\ sentCount[k] <= 1
         /\ k \in dropped => sentCount[k] = 0
         /\ Processed(k) => (sentCount[k] = 1 <=> k \notin dropped)
    /\ \A i \in 1..Len(message_queue) : drainCount[message_queue[i].id] = 0
    /\ req.kind = "user" =>
         /\ sentCount[req.id] = 1
         /\ req.msg = MsgText(req.id)
         /\ pc \in { "pm_call", "pm_put" } => message.id = req.id

\* C2 witness: a message was taken with a screenshot present, sent in a
\* request and its processing is over.
C2_Witness ==
    \E k \in MsgIds :
        Processed(k) /\ sentCount[k] = 1 /\ req.kind = "user" /\ req.id = k

\* C3: the inbox is polled once an iteration and a poll takes exactly the
\* head, so a message that entered the inbox at place k leaves it at the k-th
\* poll after it entered; messages leave in the order they were put, and with
\* a screenshot present each is sent in the iteration that takes it, once.
C3_OnePerCycleInOrder ==
    /\ cyclePolls <= 1
    /\ \A i \in 1..Len(message_queue) :
         /\ message_queue[i].pos0 - message_queue[i].checks = i
         /\ message_queue[i].id = submitted - Len(message_queue) + i
    /\ message # NoEntry => message.checks = message.pos0
    /\ \A k \in MsgIds :
         drainCount[k] = IF k <= submitted - Len(message_queue) THEN 1 ELSE 0
    /\ \A k \in MsgIds :
         Processed(k) /\ k \notin dropped => sentCount[k] = 1
    /\ pc \in { "pm_call", "pm_put" } =>
         /\ req.id = message.id
         /\ \A k \in MsgIds : sentCount[k] = 1 => k <= req.id

\* C3 witness: two messages waited in the inbox together; the second has
\* been taken at its second poll and sent after the first.
C3_Witness ==
    /\ pc = "pm_call"
    /\ message.id = 2
    /\ message.pos0 = 2
    /\ message.checks = 2
    /\ sentCount[1] = 1
    /\ sentCount[2] = 1

\* C4: an automatic request is sent only in an iteration whose clock reading
\* is at least last_analysis_time + cooldown, and the clock readings of two
\* consecutive automatic requests are at least the cooldown apart.
C4_AutoRequestsPaced ==
    /\ pc = "ag_call" =>
         /\ curAuto = current_time
         /\ current_time - last_analysis_time >= analysis_cooldown
         /\ now >= last_analysis_time + analysis_cooldown
    /\ prevAuto # 0 => curAuto - prevAuto >= analysis_cooldown

\* C4 witness: a second automatic request is in flight.
C4_Witness == pc = "ag_call" /\ prevAuto # 0

\* C5, as stated: every message taken from the inbox is sent in a request
\* by the iteration that takes it.
C5_EveryMessageSent == \A k \in MsgIds : Processed(k) => sentCount[k] >= 1

\* C5, amended: a message taken while the store holds a screenshot is sent
\* by the iteration that takes it whatever the cooldown state, and no step of
\* processing a message changes last_analysis_time.
C5_MessageIgnoresCooldown ==
    /\ [][(pc \in { "pm_read", "pm_call", "pm_put" })
            => last_analysis_time' = last_analysis_time]_vars
    /\ [][(pc = "pm_read" /\ pc' # "pm_read" /\ screenshots # << >>)
            => (pc' = "pm_call" /\ calls' = calls + 1 /\ req'.id = message.id)]_vars
    /\ [](\A k \in MsgIds : Processed(k) /\ k \notin dropped => sentCount[k] = 1)

\* C5 witness: a user request is in flight while the cooldown has not
\* elapsed since the last automatic analysis.
C5_Witness ==
    /\ pc = "pm_call"
    /\ last_analysis_time > 0
    /\ now - last_analysis_time < analysis_cooldown

\* C6, as stated: the history length is even and at most 2 * memory_window_size.
C6_HistoryEvenAndBounded ==
    /\ Len(conversation_history) % 2 = 0
    /\ Len(conversation_history) <= 2 * max_history

\* C7, as stated: after N successful exchanges the history holds exactly the
\* min(N, W) most recent exchanges, oldest first.
C7_HistoryHoldsRecentExchanges ==
    LET K == Min(successes, max_history) IN
      /\ Len(conversation_history) = 2 * K
      /\ \A j \in 1..K :
           /\ conversation_history[2 * j - 1].role = "user"
           /\ conversation_history[2 * j - 1].ex = successes - K + j
           /\ conversation_history[2 * j].role = "assistant"
           /\ conversation_history[2 * j].ex = successes - K + j

\* C8, as stated: a call of analyze that fails leaves the history as it was
\* before the call: no user turn and no assistant turn is appended.
C8_FailureLeavesHistory ==
    [][(outcome.o = "none" /\ outcome'.o \in { "fail_send", "fail_text" })
          => conversation_history' = conversation_history]_vars

\* C9, as stated: a failed call enqueues exactly one instruction, the one
\* carrying the error string.
C9_FailureEnqueuesOne ==
    Handled /\ outcome.o # "ok" =>
        Len(reqEnq) = 1 /\ reqEnq[1].text = ErrorText

\* C9, amended: a failed call enqueues exactly one instruction carrying the
\* error string, shown as an AI message; for an automatic request it is the
\* only instruction, for a user message the user's own text is enqueued
\* before it.
C9_FailureInstructions ==
    Handled /\ outcome.o # "ok" =>
        reqEnq = (IF req.kind = "user"
                    THEN << AddMessage(req.msg, FALSE, calls) >> ELSE << >>)
                 \o << AddMessage(ErrorText, TRUE, calls) >>

\* C9 witness: the call for a user message failed after the reply arrived
\* and its instructions are enqueued.
C9_Witness ==
    Handled /\ outcome.o = "fail_text" /\ req.kind = "user" /\ Len(reqEnq) = 2

\* the instructions on screen followed by those waiting in the queue
Pipeline == overlay_messages \o ui_update_queue

\* C10, as stated: a user message answered successfully enqueues exactly two
\* instructions, the user's text then the reply.
C10_TwoInstructions ==
    Handled /\ req.kind = "user" /\ outcome.o = "ok" =>
        reqEnq = << AddMessage(req.msg, FALSE, calls),
                    AddMessage(outcome.reply, TRUE, calls) >>

\* C10, amended: a user message answered successfully with a non-empty reply
\* enqueues exactly two instructions, the user's text then the reply; the pump
\* applies instructions in the order they were enqueued, so the user's text
\* is on screen before the reply.
C10_RequestThenResponse ==
    /\ Handled /\ req.kind = "user" /\ outcome.o = "ok" /\ Truthy(outcome.reply) =>
         reqEnq = << AddMessage(req.msg, FALSE, calls),
                     AddMessage(outcome.reply, TRUE, calls) >>
    /\ \A i, j \in 1..Len(Pipeline) :
         i < j =>
           /\ Pipeline[i].req <= Pipeline[j].req
           /\ Pipeline[i].req = Pipeline[j].req =>
                ~Pipeline[i].is_ai /\ Pipeline[j].is_ai

\* C10 witness: the pump has applied the user's text and then the reply of
\* the same request.
C10_Witness ==
    /\ Len(overlay_messages) = 2
    /\ overlay_messages[1] = AddMessage(MsgText(1), FALSE, overlay_messages[1].req)
    /\ overlay_messages[2] = AddMessage(<< "r", overlay_messages[1].req >>, TRUE,
                                        overlay_messages[1].req)

\* C11, as stated: when an automatic cycle is due (the cooldown has elapsed)
\* and the store is empty where the cycle reads it, no request is sent, no
\* instruction is enqueued, the history and last_analysis_time stay as they
\* are, and the loop goes on to its sleep.
C11_EmptyStoreCycleIdle ==
    [][(/\ pc' # pc
        /\ screenshots = << >>
        /\ \/ pc = "auto_check" /\ CooldownElapsed(now')
           \/ pc = "ag_read")
          => (/\ calls' = calls
              /\ ui_update_queue' = ui_update_queue
              /\ conversation_history' = conversation_history
              /\ last_analysis_time' = last_analysis_time
              /\ pc' = "sleep")]_vars

\* C12, as stated: a successful automatic cycle appends no user turn, only
\* its reply as one assistant turn.
C12_AutoAppendsReplyOnly ==
    [][(pc = "ag_call" /\ outcome'.o = "ok")
          => conversation_history' =
                 Trim(conversation_history
                      \o << AssistantTurn(outcome'.reply, successes') >>)]_vars

\* C12, amended: a successful automatic cycle appends one user turn that
\* carries the analysis prompt without any user text, then its reply as one
\* assistant turn; they are the last two turns of the history afterwards.
C12_AutoAppendsPromptAndReply ==
    [][(pc = "ag_call" /\ outcome'.o = "ok")
          => LET h == conversation_history'
                 n == Len(h)
             IN /\ n >= 2
                /\ h[n - 1].role = "user"
                /\ h[n - 1].text = human_message(NoMessage)
                /\ h[n].role = "assistant"
                /\ h[n].text = outcome'.reply
                /\ n >= 3 => SubSeq(h, 1, n - 2) =
                       LastN(conversation_history, n - 2)]_vars

\* C12 witness: an automatic request succeeded and the history ends with
\* its prompt and its reply.
C12_Witness ==
    /\ req.kind = "auto"
    /\ outcome.o = "ok"
    /\ conversation_history =
           << UserTurn(NoMessage, successes),
              AssistantTurn(outcome.reply, successes) >>

\* C13: whenever an insert (append, then eviction) is complete the store
\* holds at most max_screenshots screenshots, namely the latest captures in
\* capture order; the store changes only by an append at the back or by the
\* removal of its oldest screenshot.
C13_StoreBoundedFifo ==
    /\ [](cap_pc # "evict" =>
             Len(screenshots) = Min(captured, max_screenshots))
    /\ [](\A i \in 1..Len(screenshots) :
             screenshots[i] = captured - Len(screenshots) + i)
    /\ [][screenshots' # screenshots =>
             \/ screenshots' = Append(screenshots, captured')
             \/ /\ Len(screenshots) > max_screenshots
                /\ screenshots # << >>
                /\ screenshots' = Tail(screenshots)]_vars

\* C13 witness: the third capture is stored in a store of capacity two and
\* the first capture has been evicted.
C13_Witness ==
    /\ max_screenshots = 2
    /\ cap_pc = "capture"
    /\ screenshots = << 2, 3 >>

\* C14, as stated: get_recent_screenshots(count) returns the last
\* min(count, length) screenshots of the store in capture order, so never
\* more than count.
C14_RecentAtMostCount ==
    query # NoQuery =>
        LET k == Min(query.count, Len(query.store)) IN
          /\ query.result =
                 SubSeq(query.store, Len(query.store) - k + 1, Len(query.store))
          /\ Len(query.result) <= query.count

\* C16: once an automatic request has been dealt with, whether it succeeded
\* or failed, last_analysis_time is the clock reading of its iteration; the
\* next automatic request is sent a full cooldown after that reading.
C16_FailureAdvancesPacing ==
    /\ req.kind = "auto" /\ Handled =>
          last_analysis_time = curAuto /\ curAuto > 0
    /\ pc = "ag_call" /\ prevAuto # 0 =>
          /\ last_analysis_time = prevAuto
          /\ current_time - prevAuto >= analysis_cooldown

\* C16 witness: an automatic request failed (its user turn is all the
\* history holds) and the next automatic request is in flight.
C16_Witness ==
    /\ pc = "ag_call"
    /\ prevAuto # 0
    /\ successes = 0
    /\ conversation_history = << UserTurn(NoMessage, 0) >>

\* C19: a run of the pump hands out the queued instructions oldest first, has
\* applied every instruction that was queued when it started before it ends,
\* and ends only when the queue is empty.
C19_PumpDrainsInOrder ==
    /\ [](~pumping => pumpLeft = 0)
    /\ [](pumpLeft <= Len(ui_update_queue))
    /\ [][(pumping /\ ~pumping') => ui_update_queue = << >>]_vars
    /\ [][(Len(ui_update_queue') < Len(ui_update_queue))
            => (/\ pumping
                /\ ui_update_queue' = Tail(ui_update_queue)
                /\ applied' = applied \cup { Head(ui_update_queue) }
                /\ overlay_messages' =
                       ApplyToMessages(overlay_messages, Head(ui_update_queue))
                /\ is_visible' =
                       ApplyToVisible(is_visible, Head(ui_update_queue)))]_vars

\* C19 witness: a run of the pump has applied the two instructions that were
\* queued when it started, and goes on with one that was enqueued meanwhile.
C19_Witness ==
    /\ pumping
    /\ pumpLeft = 0
    /\ Cardinality(applied) = 2
    /\ Len(overlay_messages) = 2
    /\ ui_update_queue # << >>

\* a call of analyze has failed in the current iteration
CycleFailed == outcome.o \in { "fail_send", "fail_text" }

\* the loop goes on: its next iteration begins, or the automatic request
\* of the same iteration is in flight
LoopGoesOn == pc = "get_msg" \/ pc = "ag_call"

\* C15: the analysis loop does not end while running is true; after a failed
\* call, after a message was given up for want of a screenshot, and after
\* every end of an iteration, the loop goes on unless running is false.
C15_LoopSurvivesFailure ==
    /\ [](pc = "done" => ~running)
    /\ [](CycleFailed => <>(LoopGoesOn \/ ~running))
    /\ [](message.id \in dropped => <>(LoopGoesOn \/ ~running))
    /\ [](pc = "sleep" => <>(pc = "get_msg" \/ ~running))

\* C15 witness: after a message was given up and a call failed, the loop
\* is in a later iteration with a request in flight.
C15_Witness ==
    /\ running
    /\ dropped # { }
    /\ conversation_history # << >>
    /\ successes = 0
    /\ pc \in { "pm_call", "ag_call" }
    /\ outcome.o = "none"

\* C17, as stated: once shutdown has started it reaches its end (overlay
\* destroyed, client cleaned up, process exit), whether or not the remote
\* call in flight ever returns.
C17_ShutdownTerminates == (sd_pc # "idle") ~> (sd_pc = "exited")

\* C18, as stated: the wait of ScreenCapture.stop for the capture thread
\* ends after a bounded time, whether or not the capture thread ever
\* observes running = false.
C18_CaptureStopBounded == (sd_pc = "join_capture") ~> (sd_pc # "join_capture")

\* C20, as stated: every instruction that was enqueued has been applied by
\* the time the program ends.
C20_AllApplied == sd_pc = "exited" => ui_update_queue = << >>

\* C20, amended: an instruction is applied at most once, oldest first, and
\* is no longer queued once applied; while running is true the pump keeps
\* emptying the queue, so every instruction is applied unless shutdown
\* begins first.
C20_AppliedAtMostOnce ==
    /\ [](\A i, j \in 1..Len(ui_update_queue) :
             i # j => ui_update_queue[i] # ui_update_queue[j])
    /\ [](\A i \in 1..Len(ui_update_queue) : ui_update_queue[i] \notin applied)
    /\ [][(Len(ui_update_queue') < Len(ui_update_queue))
            => (/\ ui_update_queue' = Tail(ui_update_queue)
                /\ applied' = applied \cup { Head(ui_update_queue) })]_vars
    /\ [][(applied' # applied) => Len(ui_update_queue') < Len(ui_update_queue)]_vars
    /\ []<>(ui_update_queue = << >> \/ ~running)

\* C20 witness: an instruction of the analysis thread and one of the hotkey
\* listener have been applied, each once, and the queue is empty.
C20_Witness ==
    /\ running
    /\ ToggleVisibility(1) \in applied
    /\ \E ins \in applied : ins.kind = "add_message"
    /\ ~is_visible
    /\ Len(overlay_messages) = 1
    /\ ui_update_queue = << >>

\* the overlay's state: messages, visibility, position, input field
OverlayState == << overlay_messages, is_visible, position, input_shown >>

\* C21: the overlay's state changes only in a step of the pump, on the UI
\* thread, which takes the oldest instruction off ui_update_queue and applies
\* it; a step of the analysis thread or of the hotkey listener leaves the
\* overlay as it is and at most appends instructions to ui_update_queue.
C21_OverlayOnlyByPump ==
    /\ [][(OverlayState' # OverlayState)
            => (/\ pumping
                /\ ui_update_queue # << >>
                /\ ui_update_queue' = Tail(ui_update_queue)
                /\ pc' = pc
                /\ keys' = keys
                /\ LET ins == Head(ui_update_queue) IN
                     /\ (ins.kind # "add_message")
                          => overlay_messages' = overlay_messages
                     /\ (ins.kind # "toggle_visibility")
                          => is_visible' = is_visible
                     /\ (ins.kind # "cycle_position") => position' = position
                     /\ input_shown' = (input_shown \/ ins.kind = "show_input")
                     /\ ins.kind = "add_message"
                          => (/\ overlay_messages' # << >>
                              /\ Last(overlay_messages') = ins))]_vars
    /\ [][(pc' # pc \/ keys' # keys)
            => (/\ OverlayState' = OverlayState
                /\ Len(ui_update_queue') >= Len(ui_update_queue)
                /\ SubSeq(ui_update_queue', 1, Len(ui_update_queue))
                     = ui_update_queue)]_vars

\* C21 witness: an instruction of the hotkey listener and one of the analysis
\* thread have both been applied by the pump.
C21_Witness ==
    /\ \E ins \in applied : ins.kind = "add_message"
    /\ \E ins \in applied : ins.kind \in { "cycle_position", "show_input" }
    /\ Len(overlay_messages) = 1
    /\ position = POSITION_CYCLE[2] \/ input_shown

\* C22, as stated: every step that changes the conversation history is a
\* step of the analysis thread, also during shutdown while a remote call is
\* in flight; no step of the UI thread changes it.
C22_HistoryOnlyByCoordinator ==
    [][(conversation_history' # conversation_history)
         => (pc' # pc /\ sd_pc' = sd_pc)]_vars

\* C23: the screenshot of a request is the last element of the store at the
\* step that reads it, which is the latest capture completed by then,
\* whatever the capture thread has appended or evicted and wherever it stands;
\* the read is one step that changes neither the store nor the capture
\* thread, and it is never held up by the capture thread.
C23_RequestUsesLatestCapture ==
    /\ [][(calls' = calls + 1)
            => (/\ screenshots # << >>
                /\ req'.shot = Last(screenshots)
                /\ req'.shot = captured
                /\ screenshots' = screenshots
                /\ captured' = captured
                /\ cap_pc' = cap_pc)]_vars
    /\ [](\A p \in { "capture", "evict" } :
            (cap_pc = p /\ calls < MaxCalls)
              => (/\ pc = "pm_read" => ENABLED ProcessMessageRead
                  /\ pc = "ag_read" => ENABLED AnalyzeRead))

\* C23 witness: the store was read between the append of the second capture
\* and the eviction of the first, and the request holds the second.
C23_Witness ==
    /\ pc \in { "pm_call", "ag_call" }
    /\ cap_pc = "evict"
    /\ max_screenshots = 1
    /\ screenshots = << 1, 2 >>
    /\ req.shot = 2

\* C24: whatever cooldown_seconds is configured, the effective cooldown is
\* not below the floor of 5 seconds, it is the configured value when that is
\* at least 5, for a number it is the larger of the number and 5, and two
\* automatic requests are at least 5 seconds apart.
C24_CooldownClamped ==
    /\ ~Less(cooldown, Num(MinCooldown))
    /\ AtLeast(cooldown_config, Num(MinCooldown)) => cooldown = cooldown_config
    /\ ~cooldown_config.nan
         => cooldown = Num(Max(cooldown_config.v, MinCooldown))
    /\ prevAuto # 0 => curAuto - prevAuto >= MinCooldown

\* C24 witness: a negative cooldown is configured, the effective one is the
\* floor, and a second automatic request went out 5 seconds after the first.
C24_Witness ==
    /\ cooldown_config = Num(-1)
    /\ cooldown = Num(MinCooldown)
    /\ prevAuto # 0
    /\ curAuto = prevAuto + MinCooldown

\* a call of the remote service is in flight
InFlight == pc \in { "pm_call", "ag_call" }

\* C25: while a remote call is in flight every action of the UI thread whose
\* turn it is can be taken at once: submitting a message, starting, running
\* and ending a pump run, and each step of shutdown (the join of the capture
\* thread once that thread has ended, the join of the analysis thread in any
\* case, its timeout being two seconds); and shutdown gets past the join of
\* the analysis thread even if the call never returns.
C25_UINeverWaitsForCall ==
    /\ [](InFlight =>
            /\ (submitted < MaxMsgs) => ENABLED Submit
            /\ (running /\ ~pumping) => ENABLED PumpStartLogged
            /\ (pumping /\ ui_update_queue # << >>) => ENABLED PumpApplyLogged
            /\ (pumping /\ ui_update_queue = << >>) => ENABLED PumpEnd
            /\ (sd_pc = "idle" /\ running /\ ~pumping) => ENABLED ShutdownBegin
            /\ (sd_pc = "stop_threads") => ENABLED ShutdownStopThreads
            /\ (sd_pc = "join_capture" /\ cap_pc = "exited")
                 => ENABLED ShutdownJoinCapture
            /\ (sd_pc = "join_analysis") => ENABLED ShutdownJoinAnalysis
            /\ (sd_pc = "cleanup") => ENABLED ShutdownCleanup
            /\ (sd_pc = "exit") => ENABLED ShutdownExit)
    /\ (InFlight /\ sd_pc = "join_analysis") ~> (sd_pc # "join_analysis")

\* C25 witness: shutdown has run to its end while the remote call sent before
\* it never returned.
C25_Witness ==
    /\ sd_pc = "exited"
    /\ pc = "killed"
    /\ calls = 1
    /\ outcome = NoOutcome
    /\ req.kind = "auto"

\* C26: when _process_message finds the store empty, the step sends no
\* request, enqueues no instruction, leaves the history and the inbox as they
\* are, and gives the message up; a message given up was drained once, is
\* not in the inbox and is in no request, then or later.
C26_EmptyStoreDropsMessage ==
    /\ [][(pc = "pm_read" /\ pc' # pc /\ screenshots = << >>)
            => (/\ calls' = calls
                /\ req' = req
                /\ ui_update_queue' = ui_update_queue
                /\ conversation_history' = conversation_history
                /\ message_queue' = message_queue
                /\ dropped' = dropped \cup { message.id }
                /\ message' = NoEntry)]_vars
    /\ [](\A k \in dropped :
            /\ sentCount[k] = 0
            /\ drainCount[k] = 1
            /\ req.id # k
            /\ \A i \in 1..Len(message_queue) : message_queue[i].id # k)

\* C26 witness: the first message was given up on an empty store; the second,
\* drained after the first capture, has been sent and answered.
C26_Witness ==
    /\ dropped = { 1 }
    /\ screenshots # << >>
    /\ sentCount[2] = 1
    /\ Processed(2)
    /\ message_queue = << >>
    /\ pc = "sleep"

CyclePositions == { POSITION_CYCLE[i] : i \in 1..Len(POSITION_CYCLE) }

\* C28: POSITION_CYCLE holds 8 different positions; from a position of the
\* cycle, the 8 calls that follow set 8 different positions, each of them in
\* the cycle, the eighth being the position started from; from any other
\* position the first call sets the first position of the cycle; after any
\* call the position is one of the 8.
C28_CycleOfEight ==
    /\ Cardinality(CyclePositions) = 8
    /\ Len(POSITION_CYCLE) = 8
    /\ position = Last(trail)
    /\ \A i \in 2..Len(trail) : trail[i] \in CyclePositions
    /\ (trail[1] \notin CyclePositions /\ Len(trail) >= 2)
         => trail[2] = POSITION_CYCLE[1]
    /\ (trail[1] \in CyclePositions /\ Len(trail) >= 9)
         => (/\ trail[9] = trail[1]
             /\ { trail[i] : i \in 2..9 } = CyclePositions
             /\ \A i, j \in 2..9 : i # j => trail[i] # trail[j])
    /\ \A i \in 1..Len(trail) - 1 :
         trail[i] \in CyclePositions => trail[i + 1] # trail[i]

\* C28 witness: eight calls from top-left have gone round the cycle and
\* the overlay is at top-left again.
C28_Witness ==
    /\ Len(trail) = 9
    /\ trail[1] = "top-left"
    /\ trail[2] = "top-middle"
    /\ position = "top-left"

\* C29, as stated: the history alternates roles and starts with a user turn:
\* user, assistant, user, assistant, ...
C29_HistoryAlternates ==
    \A i \in 1..Len(conversation_history) :
       conversation_history[i].role = IF i % 2 = 1 THEN "user" ELSE "assistant"

\* C30, as stated: every screenshot in the store has its file in the scratch
\* directory, and two screenshots in the store never have the same file
\* path, whatever the capture interval.
C30_RetainedHaveOwnFile ==
    /\ \A i \in 1..Len(screenshots) : image_path[screenshots[i]] \in files
    /\ \A i, j \in 1..Len(screenshots) :
         i # j => image_path[screenshots[i]] # image_path[screenshots[j]]

\* C31, as stated: a step of the analysis loop that advances
\* last_analysis_time ends a cycle in which an automatic request was issued,
\* whatever max_screenshots is and however the capture thread interleaves.
C31_AdvanceMeansRequest ==
    [][(last_analysis_time' # last_analysis_time)
         => (\E i \in 1..Len(cycleKinds) : cycleKinds[i] = "auto")]_vars

\* C32: a call of analyze is issued only by the analysis thread when it is
\* in no call, and only once the request issued before it in the same cycle
\* has returned; while a call is in flight no other call is issued and the
\* history stays as the call read it; the history grows only where a call
\* returns.
C32_OneCallInFlight ==
    /\ [][(calls' # calls)
            => (/\ calls' = calls + 1
                /\ ~InFlight
                /\ InFlight'
                /\ req = NoReq \/ outcome # NoOutcome
                /\ outcome' = NoOutcome)]_vars
    /\ [][InFlight
            => (/\ calls' = calls
                /\ req' = req
                /\ InFlight' => conversation_history' = conversation_history)]_vars
    /\ [][(conversation_history' # conversation_history)
            => (InFlight /\ ~InFlight' /\ outcome' # NoOutcome)]_vars

\* C32 witness: in one cycle the request of a message has returned and been
\* appended to the history, and the automatic request is now in flight.
C32_Witness ==
    /\ pc = "ag_call"
    /\ cycleKinds = << "user", "auto" >>
    /\ calls = 2
    /\ successes = 1
    /\ Len(conversation_history) = 2
    /\ outcome = NoOutcome

\* the analysis loop has ended, or the process has
AnalysisOver == pc \in { "done", "killed" }

\* C33: once running is false the analysis loop begins no iteration: the
\* loop test after the sleep ends the loop, and no step takes the thread to
\* the head of an iteration; the iteration in progress may still drain one
\* message and issue its requests; then the loop ends, unless a call of the
\* remote service does not return.
C33_NoNewCycleAfterStop ==
    /\ [][(~running /\ pc' # pc)
            => (/\ pc' # "get_msg"
                /\ pc # "done"
                /\ pc = "sleep" => pc' \in { "done", "killed" })]_vars
    /\ (~running) ~> (AnalysisOver \/ InFlight \/ calls = MaxCalls)

\* C33 witness: running is false while an iteration that had begun is at its
\* poll of the inbox, with a message to drain and a screenshot to send.
C33_Witness ==
    /\ ~running
    /\ pc = "get_msg"
    /\ message_queue # << >>
    /\ screenshots # << >>
    /\ calls = 0

----------------------------------------------------------------------------
(* The pump when a call of Tk fails inside an overlay method *)

MaxErrors == 2        \* errors the overlay's methods log

\* update() for a method whose body met an error: add_message,
\* toggle_visibility, cycle_position and show_input each hold their body in
\* try: ... except Exception as e: logger.error(...), so the error is logged
\* there and update() returns
update_raises_Uncaught(failed) == failed

update_raises(failed) == FALSE

\* update = self.ui_update_queue.get_nowait(); update(), where the first
\* call of Tk in the method raises: no message frame is stored, is_visible
\* and the input field stay as they were; cycle_position has set
\* self.position before it calls Tk. An error that left update() would pass
\* the inner except queue.Empty and reach the outer except Exception of
\* process_updates: logged there, with after(50, process_updates) skipped.
PumpApplyError ==
    /\ pumping
    /\ ui_update_queue # << >>
    /\ apply_errors < MaxErrors
    /\ apply_errors' = apply_errors + 1
    /\ LET i == NextUpdate(ui_update_queue) IN
         /\ ui_update_queue' = Remove(ui_update_queue, i)
         /\ position' = ApplyToPosition(position, ui_update_queue[i])
         /\ applied' = applied \cup { ui_update_queue[i] }
    /\ IF update_raises(TRUE)
         THEN /\ pumping' = FALSE
              /\ pumpLeft' = 0
         ELSE /\ pumping' = pumping
              /\ pumpLeft' = Max(pumpLeft - 1, 0)
    /\ UNCHANGED << now, screenshots, captured, cap_pc, message_queue,
                    submitted, running, overlay_messages >>
    /\ UNCHANGED << max_screenshots, query, sc_running, sd_pc, is_visible,
                    keys, input_shown, fsVars, confVars, pump_timer, sigVars,
                    inVars >>
    /\ UNCHANGED coordVars

\* The program up to its exit, as in SpecShutdown, with overlay methods that
\* may fail.
UIThreadError ==
    \/ UIThread
    \/ PumpApplyError

NextPumpError ==
    \/ NextShutdown
    \/ PumpApplyError

SpecPumpError ==
    /\ InitShutdown
    /\ [][NextPumpError]_vars
    /\ WF_vars(UIThreadError)
    /\ WF_vars(AnalysisThread)

\* C34: while running is true and shutdown has not begun, a pump run is
\* under way or the timer of the next one is pending; every pump run that
\* ends while running is true leaves that timer pending, also a run in which
\* a method of the overlay met an error; and instructions waiting in the
\* queue are taken out of it, unless shutdown begins first.
C34_PumpRescheduled ==
    /\ []((running /\ sd_pc = "idle") => (pumping \/ pump_timer))
    /\ [][(pumping /\ ~pumping' /\ running') => pump_timer']_vars
    /\ (running /\ ui_update_queue # << >>)
         ~> (ui_update_queue = << >> \/ ~running)

\* C34 witness: a method of the overlay has met an error, the pump run has
\* ended, the timer of the next run is pending and an instruction put later
\* waits for it.
C34_Witness ==
    /\ apply_errors = 1
    /\ running
    /\ ~pumping
    /\ pump_timer
    /\ ui_update_queue # << >>
    /\ Cardinality(applied) = 1

----------------------------------------------------------------------------
(* Signals and the invocations of GamePartner.shutdown *)

MaxSignals == 3       \* signals the process receives

\* what an invocation of shutdown and the signal handler leave alone
sigFrame == << now, screenshots, captured, message_queue, submitted,
               ui_update_queue, overlay_messages, max_screenshots, query,
               sc_running, is_visible, keys, applied, pumpLeft, ovVars, fsVars,
               confVars, apply_errors, inVars, conversation_history >>

\* _signal_handler: if not self.force_quit
force_quit_set_Never(fq) == FALSE

force_quit_set(fq) == fq

\* the overlay is there until shutdown has destroyed it
OverlayAlive == sd_pc \in { "idle", "stop_threads", "join_capture",
                            "join_analysis" }

\* GamePartner._signal_handler, run by the main thread between two of its
\* instructions, wherever it is. The first signal sets force_quit and calls
\* self.overlay.after(0, self.shutdown); on an overlay that shutdown has
\* destroyed after() raises, into the code the signal interrupted: the rest
\* of shutdown, where the clearing of the client is skipped or not, and the
\* exit follows. A signal with force_quit set: os._exit(1), the process ends
\* at once with its threads and timers.
Signal ==
    /\ signals < MaxSignals
    /\ sd_pc \notin { "exited", "forced" }
    /\ signals' = signals + 1
    /\ IF ~force_quit_set(force_quit)
         THEN /\ force_quit' = TRUE
              /\ sd_scheduled' = IF OverlayAlive THEN sd_scheduled + 1
                                                 ELSE sd_scheduled
              /\ IF OverlayAlive
                   THEN sd_pc' = sd_pc
                   ELSE sd_pc' \in { sd_pc, "exit" }
              /\ UNCHANGED << pc, cap_pc, pumping, pump_timer >>
         ELSE /\ sd_pc' = "forced"
              /\ pc' = IF pc = "done" THEN "done" ELSE "killed"
              /\ cap_pc' = IF cap_pc = "exited" THEN "exited" ELSE "killed"
              /\ pumping' = FALSE
              /\ pump_timer' = FALSE
              /\ UNCHANGED << force_quit, sd_scheduled >>
    /\ UNCHANGED << running, sd_calls, sd_runs >>
    /\ UNCHANGED sigFrame
    /\ UNCHANGED coordRest

\* shutdown(): if not self.running: return;  self.running = False
shutdown_guard(r) == r

ShutdownInvoke ==
    /\ sd_calls' = sd_calls + 1
    /\ IF shutdown_guard(running)
         THEN /\ running' = FALSE
              /\ sd_pc' = "stop_threads"
              /\ sd_runs' = sd_runs + 1
         ELSE UNCHANGED << running, sd_pc, sd_runs >>
    /\ UNCHANGED << pc, cap_pc, pumping, pump_timer, force_quit, signals >>
    /\ UNCHANGED sigFrame
    /\ UNCHANGED coordRest

\* the callback of overlay.after(0, self.shutdown) comes up in the mainloop,
\* between two other callbacks
ShutdownCallback ==
    /\ sd_scheduled > 0
    /\ sd_pc = "idle"
    /\ ~pumping
    /\ sd_scheduled' = sd_scheduled - 1
    /\ ShutdownInvoke

\* run: except Exception as e: ...; self.shutdown(), after a call of run's
\* try block has raised; the mainloop is not running then, and callbacks
\* still scheduled never come up
RunError ==
    /\ sd_pc = "idle"
    /\ ~pumping
    /\ sd_scheduled' = sd_scheduled
    /\ ShutdownInvoke

\* The program up to its exit, as in SpecShutdown, with shutdown invoked by
\* a signal's callback or by the error path of run, and signals at any time.
NextSignal ==
    \/ Signal
    \/ ShutdownCallback
    \/ RunError
    \/ CaptureAppend
    \/ CaptureEvict
    \/ CaptureFail
    \/ HotkeyPress
    \/ PumpStartLogged
    \/ PumpApplyLogged
    \/ PumpEnd
    \/ ShutdownStopThreads
    \/ ShutdownJoinCapture
    \/ ShutdownJoinAnalysis
    \/ ShutdownCleanup
    \/ ShutdownExit
    \/ LoopTest
    \/ GetMessage
    \/ AutoCheck
    \/ AnalyzeRead
    \/ AnalyzeReturn
    \/ AnalyzePut

SpecSignal == InitShutdown /\ [][NextSignal]_vars

\* what the shutdown sequence alone changes, and the order of its steps
ShutdownEffects == << running, sc_running, dir_exists >>

StageOf(p) ==
    CASE p = "idle" -> 0
      [] p = "stop_threads" -> 1
      [] p = "join_capture" -> 2
      [] p = "join_analysis" -> 3
      [] p = "cleanup" -> 4
      [] p = "exit" -> 5
      [] p = "exited" -> 6
      [] p = "forced" -> 6

\* C35: shutdown gets past its guard at most once, and at most one callback
\* of shutdown is ever scheduled; the steps of the sequence (hotkey listener
\* and capture stopped, the overlay destroyed, the client cleared, exit)
\* belong to the one invocation that got past the guard and are taken in
\* their order, none of them twice; the first signal sets force_quit and does
\* not end the process, and every signal after it ends the process at once
\* and schedules nothing.
C35_ShutdownOnce ==
    /\ [](sd_runs <= 1 /\ sd_scheduled <= 1)
    /\ [][(ShutdownEffects' # ShutdownEffects
             \/ (sd_pc' # sd_pc /\ sd_pc' # "forced")) => sd_runs' = 1]_vars
    /\ [][(sd_pc' # sd_pc) => StageOf(sd_pc') > StageOf(sd_pc)]_vars
    /\ [][(signals' # signals /\ ~force_quit)
            => (force_quit' /\ sd_pc' # "forced")]_vars
    /\ [][(signals' # signals /\ force_quit)
            => (sd_pc' = "forced" /\ sd_scheduled' = sd_scheduled
                  /\ sd_calls' = sd_calls)]_vars

\* C35 witness: the first signal scheduled shutdown, its callback ran and
\* stopped the capture, and a second signal then ended the process.
C35_Witness ==
    /\ signals = 2
    /\ sd_pc = "forced"
    /\ sd_calls = 1
    /\ sd_runs = 1
    /\ ~sc_running

----------------------------------------------------------------------------
(* The input field (GameOverlay._on_submit) *)

MaxEntryLen == 2      \* characters the user types into the input field
MaxSubmits == 3       \* times the user presses <Return> in the input field
MaxInputKeys == 3     \* hotkey presses while the input field is followed

\* the characters typed: whitespace and a letter
Whitespace == { " ", "\n" }

Chars == Whitespace \cup { "a" }

\* self.input_entry.get(): any text of these characters, the empty one too
Entries == UNION { [1..n -> Chars] : n \in 0..MaxEntryLen }

\* str.strip(): leading and trailing whitespace removed
RECURSIVE lstrip(_)
lstrip(s) ==
    IF s # << >> /\ Head(s) \in Whitespace THEN lstrip(Tail(s)) ELSE s

RECURSIVE rstrip(_)
rstrip(s) ==
    IF s # << >> /\ Last(s) \in Whitespace
      THEN rstrip(SubSeq(s, 1, Len(s) - 1))
      ELSE s

strip_None(s) == s

strip(s) == rstrip(lstrip(s))

\* self.message_callback: set by run before the mainloop starts
\* (self.overlay.set_message_callback(lambda msg: self.message_queue.put(msg)))
message_callback == TRUE

\* GameOverlay._on_submit, bound to <Return> in the input field, which takes
\* keys while it shows: message = self.input_entry.get().strip();
\* if message and self.message_callback: self.message_callback(message),
\* which puts it on the inbox; self.hide_input() in either case
OnSubmit ==
    /\ input_shown
    /\ sd_pc = "idle"
    /\ ~pumping
    /\ submits < MaxSubmits
    /\ submits' = submits + 1
    /\ \E text \in Entries :
         /\ entry' = text
         /\ LET msg == strip(text) IN
              IF msg # << >> /\ message_callback
                THEN /\ submitted < MaxMsgs
                     /\ submitted' = submitted + 1
                     /\ message_queue' = Append(message_queue,
                            [id |-> submitted + 1, text |-> msg,
                             pos0 |-> Len(message_queue) + 1, checks |-> 0])
                ELSE UNCHANGED << submitted, message_queue >>
    /\ input_shown' = FALSE
    /\ UNCHANGED << now, screenshots, captured, cap_pc, ui_update_queue,
                    running, pumping, overlay_messages >>
    /\ UNCHANGED coordVars
    /\ UNCHANGED << max_screenshots, query, sc_running, sd_pc, is_visible,
                    keys, applied, pumpLeft, position, fsVars, confVars,
                    pump_timer, apply_errors, sigVars >>

HotkeyPressInput == HotkeyPressUpTo(MaxInputKeys)

\* The input field beside the hotkey listener and the pump: hotkeys show the
\* field, the user types any text and presses <Return>. The analysis thread
\* is in its initial delay.
NextSubmit ==
    \/ HotkeyPressInput
    \/ PumpStartLogged
    \/ PumpApplyLogged
    \/ PumpEnd
    \/ OnSubmit

SpecSubmit == InitPump /\ [][NextSubmit]_vars

\* a text of whitespace only, the empty text included
Blank(s) == \A k \in 1..Len(s) : s[k] \in Whitespace

\* C36: no entry of the inbox has an empty or whitespace-only text, and none
\* starts or ends with whitespace; a press of <Return> in the input field
\* hides the field, puts nothing on the inbox if the text typed is blank, and
\* else puts the text, stripped, at the end of the inbox.
C36_NoBlankMessage ==
    /\ [](\A i \in 1..Len(message_queue) :
            /\ ~Blank(message_queue[i].text)
            /\ Head(message_queue[i].text) \notin Whitespace
            /\ Last(message_queue[i].text) \notin Whitespace)
    /\ [][(submits' # submits)
            => (/\ ~input_shown'
                /\ IF Blank(entry')
                     THEN message_queue' = message_queue
                     ELSE /\ Len(message_queue') = Len(message_queue) + 1
                          /\ SubSeq(message_queue', 1, Len(message_queue))
                               = message_queue
                          /\ Last(message_queue').text = strip(entry'))]_vars

\* C36 witness: the user pressed <Return> on a text of whitespace only, then
\* on a text with whitespace around a letter: the field is hidden and the
\* inbox holds the letter alone.
C36_Witness ==
    /\ submits = 2
    /\ submitted = 1
    /\ entry = << " ", "a" >>
    /\ ~input_shown
    /\ Len(message_queue) = 1
    /\ message_queue[1].text = << "a" >>

====
